---- MODULE Spec2Model ----
(***************************************************************************)
(* El Rincon de Lola - Home Assistant integration.                         *)
(*                                                                         *)
(* ApiPingSensor keeps one Server-Sent-Events connection to /api/events    *)
(* open (sensor.py, _listen_sse), assembles events from data: lines and    *)
(* publishes EVENT_SSE_UPDATE on the dispatcher.  Four snapshot fetchers   *)
(* (OcupadoBinarySensor, ReservaHoySensor, ReservaAnteriorSensor,          *)
(* ReservaProximaSensor) subscribe to it and refresh from the REST API.    *)
(*                                                                         *)
(* A coroutine runs atomically between two await points, so every action   *)
(* below is one such segment: from the resumption of an await to the next  *)
(* suspension (or to the end of the coroutine).                            *)
(*                                                                         *)
(* Text is a sequence of one-character strings; bytes that are not valid   *)
(* UTF-8 are the token BadByte.                                            *)
(***************************************************************************)
EXTENDS Integers, Sequences, FiniteSets, TLC

\* ------------------------------------------------------------------ bounds
\* Activations of the ApiPingSensor in one run (one _listen_sse task each).
MaxTasks == 2
\* Consecutive failed connection attempts the environment produces in a row.
MaxFails == 7
\* Events the stream client assembles in one run.
MaxEvents == 2
\* Characters accumulated in the buffer of one connection.
MaxBuf == 2
\* GETs one fetcher issues in one run.
MaxReq == 2
\* Lines of one connection whose history is recorded.
MaxLines == 5

\* ------------------------------------------------------- program constants
\* backoff = 10 before the loop (sensor.py:67)
InitialBackoff == 10
\* backoff = 5 after an HTTP 200 (sensor.py:84)
BackoffFloor == 5
\* min(backoff * 2, 300) (sensor.py:81, sensor.py:118)
BackoffCeiling == 300
\* line[5:] (sensor.py:108): the length of the prefix "data:"
DataPrefixLen == 5

Min(a, b) == IF a <= b THEN a ELSE b

\* ------------------------------------------------------------------- text
BadByte == "0xFF"
\* The characters str.isspace() is true for, which str.lstrip() removes; a
\* character without a TLA+ escape is written by its code point.
Whitespace ==
    {" ", "\t", "\n", "\r", "\f", "U+000B",
     "U+001C", "U+001D", "U+001E", "U+001F", "U+0085", "U+00A0", "U+1680",
     "U+2000", "U+2001", "U+2002", "U+2003", "U+2004", "U+2005", "U+2006",
     "U+2007", "U+2008", "U+2009", "U+200A", "U+2028", "U+2029", "U+202F",
     "U+205F", "U+3000"}

\* raw.decode("utf-8") raises on a byte sequence that is not UTF-8.
Decodable(raw) == \A i \in 1..Len(raw) : raw[i] # BadByte

\* str.rstrip("\n"): every trailing newline is removed, nothing else.
RECURSIVE RStripNL(_)
RStripNL(s) ==
    IF s # <<>> /\ s[Len(s)] = "\n" THEN RStripNL(SubSeq(s, 1, Len(s) - 1)) ELSE s

\* str.lstrip(): every leading whitespace character is removed.
RECURSIVE LStrip(_)
LStrip(s) ==
    IF s # <<>> /\ Head(s) \in Whitespace THEN LStrip(Tail(s)) ELSE s

\* str.startswith(p)
StartsWith(s, p) == Len(s) >= Len(p) /\ SubSeq(s, 1, Len(p)) = p

Colon == <<":">>
DataPrefix == <<"d", "a", "t", "a", ":">>

\* line[5:].lstrip() of a data: line
DataPayload(line) == LStrip(SubSeq(line, DataPrefixLen + 1, Len(line)))

\* The raw lines resp.content yields in this model (each is one chunk, ended
\* by its line terminator when it has one).
RawBlank == <<"\n">>
RawPing == <<":", " ", "p", "\n">>
RawDataA == <<"d", "a", "t", "a", ":", " ", "a", "\n">>
RawDataB == <<"d", "a", "t", "a", ":", "b", "\n">>
RawDataTwoSpaces == <<"d", "a", "t", "a", ":", " ", " ", "c", "\n">>
RawDataEmpty == <<"d", "a", "t", "a", ":", "\n">>
RawEventField == <<"i", "d", ":", "1", "\n">>
RawUndecodable == <<BadByte, "\n">>
RawLines == {RawBlank, RawPing, RawDataA, RawDataB, RawDataTwoSpaces,
             RawDataEmpty, RawEventField, RawUndecodable}

\* _attr_native_value = None
NoneValue == <<"None">>

\* ------------------------------------------------------------------- JSON
\* JSON scalars of a response body.  A key that is absent reads as JNull,
\* which is what dict.get returns for it.
JTrue == "true"
JFalse == "false"
JNull == "null"

\* Python truthiness of a JSON scalar: false, null and "" are falsy.
Truthy(v) == v \notin {JFalse, JNull, ""}

\* x or y
Or(x, y) == IF Truthy(x) THEN x ELSE y

Payload(has, name, date, bday) ==
    [has_reservation |-> has, user_name |-> name, date |-> date,
     is_birthday |-> bday, is_holiday |-> JFalse, profile_pic_url |-> JNull]

\* The JSON objects the REST endpoints answer with in this model.
Payloads == {Payload(JTrue, "Ana", "2024-05-01", JTrue),
             Payload(JTrue, JNull, "2024-05-01", JFalse),
             Payload(JTrue, JNull, JNull, JFalse),
             Payload(JFalse, JNull, JNull, JFalse),
             Payload(JFalse, "Ana", JNull, JFalse)}

\* --------------------------------------------------------------- fetchers
Ocupado == "ocupado"
Hoy == "reserva_hoy"
Anterior == "reserva_anterior"
Proxima == "reserva_proxima"
Fetchers == {Ocupado, Hoy, Anterior, Proxima}

\* ------------------------------------------------------------------ state
VARIABLES
    running,        \* ApiPingSensor._running
    curTask,        \* ApiPingSensor._task: index into tasks, 0 for None
    tasks,          \* every _listen_sse task created so far, in creation order
    pingActive,     \* the host has added the ApiPingSensor and not removed it
    removePc,       \* async_will_remove_from_hass: "idle" or "awaiting" the task
    lastRemove,     \* how the last async_will_remove_from_hass ended
    native_value,   \* ApiPingSensor._attr_native_value
    pingWrites,     \* calls of ApiPingSensor.async_write_ha_state
    published,      \* calls of async_dispatcher_send(EVENT_SSE_UPDATE)
    hosted,         \* the fetcher entities enabled in the host (fixed in a run)
    fActive,        \* fetcher -> added to the host and not removed
    unsubs,         \* fetcher -> _unsubs (Ocupado: _unsub), the kinds subscribed
    sseSubs,        \* fetcher -> its handlers connected to EVENT_SSE_UPDATE
    tickSubs,       \* fetcher -> its listeners of the 00:00:00 time change
    value,          \* fetcher -> _attr_native_value (Ocupado: _is_on)
    attrs,          \* fetcher -> _attrs
    fWrites,        \* fetcher -> calls of async_write_ha_state
    issued,         \* fetcher -> GETs issued so far
    inflight,       \* fetcher -> the refreshes awaiting their response
    lastApplied,    \* fetcher -> the GET whose response was written last
    sseCalls,       \* fetcher -> calls of _handle_sse_update
    tickCalls,      \* fetcher -> calls of _handle_midnight_tick
    outcome,        \* fetcher -> how its last finished refresh ended
    pubAtRemove,    \* fetcher -> `published` when it was removed, -1 while it
                    \* is added or was never added
    pending,        \* fetcher -> the handler calls the event loop has been
                    \* given and not yet started, oldest first, each named
                    \* by its cause
    lastData,       \* fetcher -> the JSON object of its last 200, as a set
                    \* of at most one element
    feed            \* history of one connection, when it is recorded: the raw
                    \* lines read and the events assembled from them

streamVars == <<running, curTask, tasks, pingActive, removePc, lastRemove,
                native_value, pingWrites, published>>
fetchVars == <<fActive, unsubs, sseSubs, tickSubs, value, attrs, fWrites,
               issued, inflight, lastApplied, sseCalls, tickCalls, outcome,
               pubAtRemove, lastData, pending>>
vars == <<running, curTask, tasks, pingActive, removePc, lastRemove,
          native_value, pingWrites, published, hosted, fActive, unsubs,
          sseSubs, tickSubs, value, attrs, fWrites, issued, inflight,
          lastApplied, sseCalls, tickCalls, outcome, pubAtRemove, lastData,
          pending, feed>>

\* Positions of a _listen_sse task.  The await points hold a connection
\* (ConnPcs) or not; a finished task is in one of EndPcs.
ConnPcs == {"connecting", "sleep_non200", "streaming"}
SleepPcs == {"sleep_non200", "sleep_exc"}
AwaitPcs == ConnPcs \cup {"sleep_exc"}
EndPcs == {"done", "cancelled", "raised"}

FailStatuses == {401, 500}
\* asyncio.get_running_loop().time() % 1, in thousandths
Fracs == {0, 500, 999}

\* backoff * (0.8 + 0.4 * frac), in milliseconds
JitterDelay(backoff, frac) == (backoff * (800000 + 400 * frac)) \div 1000

\* min(backoff * 2, 300)
NextBackoffUncapped(b) == b * 2
NextBackoff(b) == Min(b * 2, BackoffCeiling)

\* No history is recorded / the history of a connection that has read nothing.
NoFeed == [on |-> FALSE, lines |-> <<>>, events |-> <<>>]
EmptyFeed == [on |-> TRUE, lines |-> <<>>, events |-> <<>>]

\* A task as async_create_task leaves it: the coroutine has not run yet.
\* status is resp.status of the last response (0 before the first).
\* nfail and seen200 are history: the failed attempts since the last HTTP
\* 200 (or since the start), and whether there has been an HTTP 200.
NewTask == [pc |-> "created", backoff |-> InitialBackoff, buffer |-> <<>>,
            cancel |-> FALSE, delay |-> 0, status |-> 0, nfail |-> 0,
            seen200 |-> FALSE]

\* The attributes Ocupado starts with, and the other fetchers too: {}
NoAttrs == <<>>

InitStream ==
    /\ running = FALSE
    /\ curTask = 0
    /\ tasks = <<>>
    /\ pingActive = FALSE
    /\ removePc = "idle"
    /\ lastRemove = "none"
    /\ native_value = NoneValue
    /\ pingWrites = 0
    /\ published = 0

InitFetchers ==
    /\ fActive = [f \in Fetchers |-> FALSE]
    /\ unsubs = [f \in Fetchers |-> <<>>]
    /\ sseSubs = [f \in Fetchers |-> 0]
    /\ tickSubs = [f \in Fetchers |-> 0]
    /\ value = [f \in Fetchers |-> IF f = Ocupado THEN FALSE ELSE JNull]
    /\ attrs = [f \in Fetchers |-> NoAttrs]
    /\ fWrites = [f \in Fetchers |-> 0]
    /\ issued = [f \in Fetchers |-> 0]
    /\ inflight = [f \in Fetchers |-> {}]
    /\ lastApplied = [f \in Fetchers |-> 0]
    /\ sseCalls = [f \in Fetchers |-> 0]
    /\ tickCalls = [f \in Fetchers |-> 0]
    /\ outcome = [f \in Fetchers |-> "none"]
    /\ pubAtRemove = [f \in Fetchers |-> -1]
    /\ lastData = [f \in Fetchers |-> {}]
    /\ pending = [f \in Fetchers |-> <<>>]

TaskIds == 1..Len(tasks)

\* A task that has finished: its locals are gone, only how it ended is left.
Ended(how) == [NewTask EXCEPT !.pc = how]

SetTask(t, r) == tasks' = [tasks EXCEPT ![t] = r]

\* `while self._running:` followed by session.get, or the end of the loop.
LoopTop(r) ==
    IF running
    THEN [r EXCEPT !.pc = "connecting", !.buffer = <<>>, !.delay = 0]
    ELSE Ended("done")

\* ------------------------------------------------- refreshes, dispatching
\* _refresh_from_api up to its first suspension: the GET is issued and the
\* coroutine awaits the response.  req is the fetcher's GET counter, cause
\* what called the refresh ("init", "sse" or "tick").
Issue(f, cause) == [seq |-> issued[f] + 1, cause |-> cause]

\* The fetchers whose handler async_dispatcher_send(EVENT_SSE_UPDATE) calls.
Subscribers == {f \in Fetchers : sseSubs[f] > 0}

\* The refreshes of f that have been started or are waiting to start.
Committed(f) == issued[f] + Len(pending[f])

\* async_dispatcher_send(hass, EVENT_SSE_UPDATE): the _handle_sse_update of
\* every connected fetcher is called.  It is a coroutine function, so the
\* call hands a task to the event loop; the task starts in a later step.
Dispatch ==
    /\ \A f \in Subscribers : Committed(f) < MaxReq
    /\ sseCalls' = [f \in Fetchers |->
                      IF f \in Subscribers THEN sseCalls[f] + 1 ELSE sseCalls[f]]
    /\ pending' = [f \in Fetchers |->
                     IF f \in Subscribers
                     THEN Append(pending[f], "sse") ELSE pending[f]]
    /\ UNCHANGED <<hosted, fActive, unsubs, sseSubs, tickSubs, value, attrs,
                   fWrites, issued, inflight, lastApplied, tickCalls, outcome,
                   pubAtRemove, lastData>>

\* ---------------------------------------------------------- ApiPingSensor
\* ApiPingSensor.async_added_to_hass.  The host adds an entity that is not
\* added, and not while its removal is still running.
PingAdd ==
    /\ ~pingActive
    /\ removePc = "idle"
    /\ Len(tasks) < MaxTasks
    /\ running' = TRUE
    /\ tasks' = Append(tasks, NewTask)
    /\ curTask' = Len(tasks) + 1
    /\ pingActive' = TRUE
    /\ UNCHANGED <<removePc, lastRemove, native_value, pingWrites, published>>
    /\ UNCHANGED <<hosted, feed, fetchVars>>

\* task.cancel(): a task that has not finished is marked; the CancelledError
\* is thrown into it at the await it is suspended on.
CancelTask(r) == IF r.pc \in EndPcs THEN r ELSE [r EXCEPT !.cancel = TRUE]

\* How `await self._task` inside suppress(CancelledError) ends for a task
\* that has finished.
AwaitResult(r) == IF r.pc = "raised" THEN "error" ELSE "ok"

\* async_will_remove_from_hass with the flag cleared and nothing else.
PingRemoveFlagOnly ==
    /\ pingActive
    /\ removePc = "idle"
    /\ running' = FALSE
    /\ pingActive' = FALSE
    /\ lastRemove' = "ok"
    /\ UNCHANGED <<curTask, tasks, removePc, native_value, pingWrites, published>>
    /\ UNCHANGED <<hosted, feed, fetchVars>>

\* async_will_remove_from_hass that cancels the task and does not await it.
PingRemoveNoAwait ==
    /\ pingActive
    /\ removePc = "idle"
    /\ running' = FALSE
    /\ pingActive' = FALSE
    /\ lastRemove' = "ok"
    /\ tasks' = IF curTask = 0 THEN tasks
                ELSE [tasks EXCEPT ![curTask] = CancelTask(tasks[curTask])]
    /\ UNCHANGED <<curTask, removePc, native_value, pingWrites, published>>
    /\ UNCHANGED <<hosted, feed, fetchVars>>

\* ApiPingSensor.async_will_remove_from_hass up to `await self._task`: the
\* flag is cleared and the task cancelled.  Awaiting a task that has already
\* finished does not suspend.
PingRemove ==
    /\ pingActive
    /\ removePc = "idle"
    /\ running' = FALSE
    /\ pingActive' = FALSE
    /\ IF curTask = 0
       THEN /\ lastRemove' = "ok"
            /\ UNCHANGED <<tasks, removePc>>
       ELSE /\ tasks' = [tasks EXCEPT ![curTask] = CancelTask(tasks[curTask])]
            /\ IF tasks[curTask].pc \in EndPcs
               THEN /\ lastRemove' = AwaitResult(tasks[curTask])
                    /\ UNCHANGED removePc
               ELSE /\ removePc' = "awaiting"
                    /\ UNCHANGED lastRemove
    /\ UNCHANGED <<curTask, native_value, pingWrites, published>>
    /\ UNCHANGED <<hosted, feed, fetchVars>>

\* `await self._task` resumes once the task has finished; a CancelledError
\* is suppressed, any other exception of the task is raised to the caller.
PingRemoveReturn ==
    /\ removePc = "awaiting"
    /\ tasks[curTask].pc \in EndPcs
    /\ removePc' = "idle"
    /\ lastRemove' = AwaitResult(tasks[curTask])
    /\ UNCHANGED <<running, curTask, tasks, pingActive, native_value,
                   pingWrites, published>>
    /\ UNCHANGED <<hosted, feed, fetchVars>>

\* ------------------------------------------------------------ _listen_sse
StreamFrame == UNCHANGED <<running, curTask, pingActive, removePc, lastRemove,
                           native_value, pingWrites, published>>

\* The first step of a task: the coroutine runs up to `await session.get`.
TaskStart(t) ==
    /\ tasks[t].pc = "created"
    /\ ~tasks[t].cancel
    /\ SetTask(t, LoopTop(tasks[t]))
    /\ StreamFrame
    /\ UNCHANGED <<hosted, feed, fetchVars>>

\* The CancelledError thrown at an await point handled by the generic
\* handler: logged, and the loop sleeps for the backoff.
TaskCancelledSwallowed(t) ==
    /\ tasks[t].pc \in AwaitPcs \cup {"created"}
    /\ tasks[t].cancel
    /\ SetTask(t, [tasks[t] EXCEPT !.pc = "sleep_exc", !.cancel = FALSE,
                                   !.buffer = <<>>])
    /\ StreamFrame
    /\ UNCHANGED <<hosted, feed, fetchVars>>

\* The CancelledError thrown into a cancelled task at the await it is
\* suspended on (or before its first step): `except asyncio.CancelledError:
\* raise` lets it through, `async with` releases the connection, and the
\* task ends cancelled.
TaskCancelled(t) ==
    /\ tasks[t].pc \in AwaitPcs \cup {"created"}
    /\ tasks[t].cancel
    /\ SetTask(t, Ended("cancelled"))
    /\ StreamFrame
    /\ UNCHANGED <<hosted, feed, fetchVars>>

\* session.get answers 200: the backoff is reset and the body is read.
ConnectOk(t) ==
    /\ tasks[t].pc = "connecting"
    /\ ~tasks[t].cancel
    /\ SetTask(t, [tasks[t] EXCEPT !.pc = "streaming", !.backoff = BackoffFloor,
                                   !.buffer = <<>>, !.status = 200,
                                   !.nfail = 0, !.seen200 = TRUE])
    /\ StreamFrame
    /\ UNCHANGED <<hosted, feed, fetchVars>>

\* A 401 that ends the loop for good.
ConnectNon200StopOn401(t, status, frac) ==
    /\ tasks[t].pc = "connecting"
    /\ ~tasks[t].cancel
    /\ tasks[t].nfail < MaxFails
    /\ SetTask(t, IF status = 401
                  THEN Ended("done")
                  ELSE [tasks[t] EXCEPT !.pc = "sleep_non200", !.nfail = @ + 1,
                                        !.status = status,
                                        !.delay = JitterDelay(tasks[t].backoff, frac)])
    /\ StreamFrame
    /\ UNCHANGED <<hosted, feed, fetchVars>>

\* session.get answers another status (401 is logged): the loop sleeps for
\* backoff * jitter inside `async with`.
ConnectNon200(t, status, frac) ==
    /\ tasks[t].pc = "connecting"
    /\ ~tasks[t].cancel
    /\ tasks[t].nfail < MaxFails
    /\ SetTask(t, [tasks[t] EXCEPT !.pc = "sleep_non200", !.nfail = @ + 1,
                                   !.status = status,
                                   !.delay = JitterDelay(tasks[t].backoff, frac)])
    /\ StreamFrame
    /\ UNCHANGED <<hosted, feed, fetchVars>>

\* session.get, or reading the body, raises: `except Exception` sleeps for
\* backoff * jitter.
StreamException(t, frac) ==
    /\ tasks[t].pc \in {"connecting", "streaming"}
    /\ ~tasks[t].cancel
    /\ tasks[t].nfail < MaxFails
    /\ SetTask(t, [tasks[t] EXCEPT !.pc = "sleep_exc", !.nfail = @ + 1,
                                   !.buffer = <<>>,
                                   !.delay = JitterDelay(tasks[t].backoff, frac)])
    /\ StreamFrame
    /\ UNCHANGED <<hosted, feed, fetchVars>>

\* asyncio.sleep(delay) returns: the backoff doubles up to the ceiling and
\* the loop goes round.
SleepDone(t) ==
    /\ tasks[t].pc \in SleepPcs
    /\ ~tasks[t].cancel
    /\ SetTask(t, LoopTop([tasks[t] EXCEPT !.backoff = NextBackoff(@)]))
    /\ StreamFrame
    /\ UNCHANGED <<hosted, feed, fetchVars>>

\* The body ends: `async for` finishes without an exception, `async with`
\* is left and the loop goes round.
StreamEnd(t) ==
    /\ tasks[t].pc = "streaming"
    /\ ~tasks[t].cancel
    /\ SetTask(t, LoopTop(tasks[t]))
    /\ StreamFrame
    /\ UNCHANGED <<hosted, feed, fetchVars>>

\* ------------------------------------------------------- the frame parser
\* One pass of the body of `async for raw in resp.content` (sensor.py:90-110)
\* over the buffer: the buffer afterwards, and the event assembled, if any.
NoEmit(buf) == [buffer |-> buf, emit |-> FALSE, event |-> <<>>]

\* Variant: a blank line emits the buffer and keeps it.
FeedLineKeepBuffer(buffer, raw) ==
    IF ~Decodable(raw) THEN NoEmit(buffer)
    ELSE LET line == RStripNL(raw) IN
         IF line = <<>>
         THEN IF buffer # <<>>
              THEN [buffer |-> buffer, emit |-> TRUE, event |-> buffer]
              ELSE NoEmit(buffer)
         ELSE IF StartsWith(line, Colon) THEN NoEmit(buffer)
         ELSE IF StartsWith(line, DataPrefix)
              THEN NoEmit(buffer \o DataPayload(line))
         ELSE NoEmit(buffer)

\* Variant: a blank line emits the buffer whether or not it is empty.
FeedLineEmitEmpty(buffer, raw) ==
    IF ~Decodable(raw) THEN NoEmit(buffer)
    ELSE LET line == RStripNL(raw) IN
         IF line = <<>>
         THEN [buffer |-> <<>>, emit |-> TRUE, event |-> buffer]
         ELSE IF StartsWith(line, Colon) THEN NoEmit(buffer)
         ELSE IF StartsWith(line, DataPrefix)
              THEN NoEmit(buffer \o DataPayload(line))
         ELSE NoEmit(buffer)

\* Variant: a comment line discards what has been buffered.
FeedLineCommentResets(buffer, raw) ==
    IF ~Decodable(raw) THEN NoEmit(buffer)
    ELSE LET line == RStripNL(raw) IN
         IF line = <<>>
         THEN IF buffer # <<>>
              THEN [buffer |-> <<>>, emit |-> TRUE, event |-> buffer]
              ELSE NoEmit(buffer)
         ELSE IF StartsWith(line, Colon) THEN NoEmit(<<>>)
         ELSE IF StartsWith(line, DataPrefix)
              THEN NoEmit(buffer \o DataPayload(line))
         ELSE NoEmit(buffer)

FeedLine(buffer, raw) ==
    IF ~Decodable(raw) THEN NoEmit(buffer)
    ELSE LET line == RStripNL(raw) IN
         IF line = <<>>
         THEN IF buffer # <<>>
              THEN [buffer |-> <<>>, emit |-> TRUE, event |-> buffer]
              ELSE NoEmit(buffer)
         ELSE IF StartsWith(line, Colon) THEN NoEmit(buffer)
         ELSE IF StartsWith(line, DataPrefix)
              THEN NoEmit(buffer \o DataPayload(line))
         ELSE NoEmit(buffer)

\* Variant: the event is written out and published, but not stored.
EmitNoStore(event) ==
    /\ published < MaxEvents
    /\ UNCHANGED native_value
    /\ pingWrites' = pingWrites + 1
    /\ published' = published + 1
    /\ Dispatch

\* An event has been assembled (sensor.py:97-102): it becomes the state,
\* the state is written out and EVENT_SSE_UPDATE is sent, in that order and
\* without an await in between.
Emit(event) ==
    /\ published < MaxEvents
    /\ native_value' = event
    /\ pingWrites' = pingWrites + 1
    /\ published' = published + 1
    /\ Dispatch

\* The history of the connection after raw has been read and parsed to p.
Recorded(raw, p) ==
    IF feed.on
    THEN [feed EXCEPT !.lines = Append(@, raw),
                      !.events = IF p.emit THEN Append(@, p.event) ELSE @]
    ELSE feed

\* The next chunk of the body arrives.  After a stop the loop breaks and the
\* task ends; otherwise the line is parsed, and an assembled event is stored
\* as the state, written out and published, in that order.
ReadLine(t, raw) ==
    /\ tasks[t].pc = "streaming"
    /\ ~tasks[t].cancel
    /\ IF ~running
       THEN /\ SetTask(t, LoopTop(tasks[t]))
            /\ UNCHANGED <<native_value, pingWrites, published, feed>>
            /\ UNCHANGED <<hosted, fetchVars>>
       ELSE LET p == FeedLine(tasks[t].buffer, raw) IN
            /\ Len(p.buffer) <= MaxBuf
            /\ feed.on => Len(feed.lines) < MaxLines
            /\ SetTask(t, [tasks[t] EXCEPT !.buffer = p.buffer])
            /\ feed' = Recorded(raw, p)
            /\ IF p.emit
               THEN Emit(p.event)
               ELSE /\ UNCHANGED <<native_value, pingWrites, published>>
                    /\ UNCHANGED <<hosted, fetchVars>>
    /\ UNCHANGED <<running, curTask, pingActive, removePc, lastRemove>>

\* ------------------------------------------------------- snapshot fetchers
FetcherFrame == UNCHANGED <<streamVars, hosted, feed>>

\* async_dispatcher_connect(hass, EVENT_SSE_UPDATE, handler): the dispatcher
\* keeps one entry per handler.
Connected(subs, f) == [subs EXCEPT ![f] = 1]
\* async_track_time_change(...): one more listener.
Tracking(subs, f) == [subs EXCEPT ![f] = @ + 1]

\* Calling every stored unsubscribe function: the dispatcher entry of an "sse"
\* one is deleted, a "tick" one removes its listener.
RECURSIVE CountOf(_, _)
CountOf(seq, kind) ==
    IF seq = <<>> THEN 0
    ELSE (IF Head(seq) = kind THEN 1 ELSE 0) + CountOf(Tail(seq), kind)

Disconnected(subs, f, called) ==
    [subs EXCEPT ![f] = IF CountOf(called, "sse") > 0 THEN 0 ELSE @]
Untracked(subs, f, called) ==
    [subs EXCEPT ![f] = IF @ >= CountOf(called, "tick")
                        THEN @ - CountOf(called, "tick") ELSE 0]

\* `await self._refresh_from_api()` up to the suspension on the GET.
StartRefresh(f, cause) ==
    /\ Committed(f) < MaxReq
    /\ issued' = [issued EXCEPT ![f] = @ + 1]
    /\ inflight' = [inflight EXCEPT ![f] = @ \cup {Issue(f, cause)}]

\* OcupadoBinarySensor.async_added_to_hass without the dispatcher connection.
OcupadoAddNoConnect(f) ==
    /\ f = Ocupado
    /\ unsubs' = [unsubs EXCEPT ![f] = <<>>]
    /\ StartRefresh(f, "init")
    /\ UNCHANGED <<sseSubs, tickSubs>>

\* OcupadoBinarySensor.async_added_to_hass
OcupadoAdd(f) ==
    /\ f = Ocupado
    /\ unsubs' = [unsubs EXCEPT ![f] = <<"sse">>]
    /\ sseSubs' = Connected(sseSubs, f)
    /\ StartRefresh(f, "init")
    /\ UNCHANGED tickSubs

\* ReservaHoySensor.async_added_to_hass
HoyAdd(f) ==
    /\ f = Hoy
    /\ unsubs' = [unsubs EXCEPT ![f] = @ \o <<"sse", "tick">>]
    /\ sseSubs' = Connected(sseSubs, f)
    /\ tickSubs' = Tracking(tickSubs, f)
    /\ StartRefresh(f, "init")

\* Variant: _ReservaBase.async_added_to_hass awaits the initial refresh first
\* and would connect to the dispatcher and the clock after it; up to the
\* first await nothing is connected.
ReservaBaseAddRefreshFirst(f) ==
    /\ f \in {Anterior, Proxima}
    /\ StartRefresh(f, "init")
    /\ UNCHANGED <<unsubs, sseSubs, tickSubs>>

\* _ReservaBase.async_added_to_hass (ReservaAnteriorSensor, ReservaProximaSensor)
ReservaBaseAdd(f) ==
    /\ f \in {Anterior, Proxima}
    /\ unsubs' = [unsubs EXCEPT ![f] = @ \o <<"sse", "tick">>]
    /\ sseSubs' = Connected(sseSubs, f)
    /\ tickSubs' = Tracking(tickSubs, f)
    /\ StartRefresh(f, "init")

\* The host adds a fetcher entity that is enabled and not added.
FAdd(f) ==
    /\ f \in hosted
    /\ ~fActive[f]
    /\ fActive' = [fActive EXCEPT ![f] = TRUE]
    /\ OcupadoAdd(f) \/ HoyAdd(f) \/ ReservaBaseAdd(f)
    /\ pubAtRemove' = [pubAtRemove EXCEPT ![f] = -1]
    /\ UNCHANGED <<value, attrs, fWrites, lastApplied, sseCalls, tickCalls,
                   outcome, lastData, pending>>
    /\ FetcherFrame

\* OcupadoBinarySensor.async_will_remove_from_hass
OcupadoRemove(f) ==
    /\ f = Ocupado
    /\ sseSubs' = Disconnected(sseSubs, f, unsubs[f])
    /\ tickSubs' = Untracked(tickSubs, f, unsubs[f])
    /\ unsubs' = [unsubs EXCEPT ![f] = <<>>]

\* ReservaHoySensor.async_will_remove_from_hass with only the first
\* subscription cancelled.
HoyRemoveFirstOnly(f) ==
    /\ f = Hoy
    /\ sseSubs' = Disconnected(sseSubs, f, SubSeq(unsubs[f], 1, 1))
    /\ tickSubs' = Untracked(tickSubs, f, SubSeq(unsubs[f], 1, 1))
    /\ unsubs' = [unsubs EXCEPT ![f] = <<>>]

\* ReservaHoySensor.async_will_remove_from_hass
HoyRemove(f) ==
    /\ f = Hoy
    /\ sseSubs' = Disconnected(sseSubs, f, unsubs[f])
    /\ tickSubs' = Untracked(tickSubs, f, unsubs[f])
    /\ unsubs' = [unsubs EXCEPT ![f] = <<>>]

\* _ReservaBase.async_will_remove_from_hass
ReservaBaseRemove(f) ==
    /\ f \in {Anterior, Proxima}
    /\ sseSubs' = Disconnected(sseSubs, f, unsubs[f])
    /\ tickSubs' = Untracked(tickSubs, f, unsubs[f])
    /\ unsubs' = [unsubs EXCEPT ![f] = <<>>]

\* The host removes a fetcher entity it has added.
FRemove(f) ==
    /\ fActive[f]
    /\ fActive' = [fActive EXCEPT ![f] = FALSE]
    /\ OcupadoRemove(f) \/ HoyRemove(f) \/ ReservaBaseRemove(f)
    /\ pubAtRemove' = [pubAtRemove EXCEPT ![f] = published]
    /\ UNCHANGED <<value, attrs, fWrites, issued, inflight, lastApplied,
                   sseCalls, tickCalls, outcome, lastData, pending>>
    /\ FetcherFrame

\* The local clock reaches 00:00:00: _handle_midnight_tick of every listener
\* is called, and each starts one refresh.
TickListeners == {f \in Fetchers : tickSubs[f] > 0}

MidnightTick ==
    /\ TickListeners # {}
    /\ \A f \in TickListeners : Committed(f) < MaxReq
    /\ tickCalls' = [f \in Fetchers |->
                       IF f \in TickListeners THEN tickCalls[f] + 1 ELSE tickCalls[f]]
    /\ pending' = [f \in Fetchers |->
                     IF f \in TickListeners
                     THEN Append(pending[f], "tick") ELSE pending[f]]
    /\ UNCHANGED <<fActive, unsubs, sseSubs, tickSubs, value, attrs, fWrites,
                   issued, inflight, lastApplied, sseCalls, outcome,
                   pubAtRemove, lastData>>
    /\ FetcherFrame

\* The task of a handler call starts: _handle_sse_update or
\* _handle_midnight_tick awaits _refresh_from_api, which runs up to its GET.
\* Nothing withdraws the task when the fetcher is removed in between.
HandlerStart(f, cause) ==
    /\ pending[f] # <<>>
    /\ Head(pending[f]) = cause
    /\ pending' = [pending EXCEPT ![f] = Tail(@)]
    /\ issued' = [issued EXCEPT ![f] = @ + 1]
    /\ inflight' = [inflight EXCEPT ![f] = @ \cup {Issue(f, cause)}]
    /\ UNCHANGED <<fActive, unsubs, sseSubs, tickSubs, value, attrs, fWrites,
                   lastApplied, sseCalls, tickCalls, outcome, pubAtRemove,
                   lastData>>
    /\ FetcherFrame

HandleSseUpdate(f) == HandlerStart(f, "sse")
HandleMidnightTick(f) == HandlerStart(f, "tick")

\* bool(x)
Bool(v) == Truthy(v)

\* OcupadoBinarySensor._refresh_from_api, lines 68-76
OcupadoState(data) == Bool(data.has_reservation)
OcupadoAttrs(data) ==
    [reserva_hoy |-> Bool(data.has_reservation),
     nombre |-> data.user_name,
     cumpleanos |-> Bool(data.is_birthday),
     festivo |-> Bool(data.is_holiday),
     foto_perfil_url |-> data.profile_pic_url]

\* ReservaHoySensor._refresh_from_api, lines 182-192
HoyState(data) ==
    IF Truthy(data.has_reservation) THEN Or(data.user_name, "Desconocido")
    ELSE "Libre"
HoyAttrs(data) ==
    [cumpleanos |-> Bool(data.is_birthday),
     festivo |-> Bool(data.is_holiday),
     foto_perfil_url |-> data.profile_pic_url]

\* _ReservaBase._refresh_from_api, lines 252-263
ReservaBaseState(data) ==
    IF Truthy(data.has_reservation)
    THEN Or(Or(data.user_name, data.date), "Desconocido")
    ELSE "Ninguna"
ReservaBaseAttrs(data) ==
    [nombre |-> data.user_name,
     cumpleanos |-> Bool(data.is_birthday),
     festivo |-> Bool(data.is_holiday),
     foto_perfil_url |-> data.profile_pic_url,
     fecha |-> data.date]

StateOf(f, data) ==
    IF f = Ocupado THEN OcupadoState(data)
    ELSE IF f = Hoy THEN HoyState(data)
    ELSE ReservaBaseState(data)
AttrsOf(f, data) ==
    IF f = Ocupado THEN OcupadoAttrs(data)
    ELSE IF f = Hoy THEN HoyAttrs(data)
    ELSE ReservaBaseAttrs(data)

\* How a GET can fail before a JSON object is in hand: a status other than
\* 200, an exception of session.get, or a body resp.json() cannot parse.
FailOutcomes == {"status_401", "status_500", "exception", "bad_json"}

\* A failed refresh that clears the snapshot and writes the empty state.
RefreshFailedClears(f, r, how) ==
    /\ r \in inflight[f]
    /\ how \in FailOutcomes
    /\ inflight' = [inflight EXCEPT ![f] = @ \ {r}]
    /\ outcome' = [outcome EXCEPT ![f] = how]
    /\ value' = [value EXCEPT ![f] = IF f = Ocupado THEN FALSE ELSE JNull]
    /\ attrs' = [attrs EXCEPT ![f] = NoAttrs]
    /\ fWrites' = [fWrites EXCEPT ![f] = @ + 1]
    /\ UNCHANGED <<fActive, unsubs, sseSubs, tickSubs, issued, lastApplied,
                   sseCalls, tickCalls, pubAtRemove, lastData, pending>>
    /\ FetcherFrame

\* _refresh_from_api resumes with a failed GET: logged, and the refresh
\* returns.
RefreshFailed(f, r, how) ==
    /\ r \in inflight[f]
    /\ how \in FailOutcomes
    /\ inflight' = [inflight EXCEPT ![f] = @ \ {r}]
    /\ outcome' = [outcome EXCEPT ![f] = how]
    /\ UNCHANGED <<fActive, unsubs, sseSubs, tickSubs, value, attrs, fWrites,
                   issued, lastApplied, sseCalls, tickCalls, pubAtRemove,
                   lastData, pending>>
    /\ FetcherFrame

\* _refresh_from_api resumes with a 200 whose body is valid JSON but no
\* object: data.get raises outside the try, and the refresh raises.
RefreshNonObject(f, r) ==
    /\ r \in inflight[f]
    /\ inflight' = [inflight EXCEPT ![f] = @ \ {r}]
    /\ outcome' = [outcome EXCEPT ![f] = "raised"]
    /\ UNCHANGED <<fActive, unsubs, sseSubs, tickSubs, value, attrs, fWrites,
                   issued, lastApplied, sseCalls, tickCalls, pubAtRemove,
                   lastData, pending>>
    /\ FetcherFrame

\* _refresh_from_api resumes with a 200 and a JSON object: the state and the
\* attributes are replaced and written out.
RefreshOk(f, r, data) ==
    /\ r \in inflight[f]
    /\ inflight' = [inflight EXCEPT ![f] = @ \ {r}]
    /\ outcome' = [outcome EXCEPT ![f] = "ok"]
    /\ value' = [value EXCEPT ![f] = StateOf(f, data)]
    /\ attrs' = [attrs EXCEPT ![f] = AttrsOf(f, data)]
    /\ fWrites' = [fWrites EXCEPT ![f] = @ + 1]
    /\ lastApplied' = [lastApplied EXCEPT ![f] = r.seq]
    /\ lastData' = [lastData EXCEPT ![f] = {data}]
    /\ UNCHANGED <<fActive, unsubs, sseSubs, tickSubs, issued, sseCalls,
                   tickCalls, pubAtRemove, pending>>
    /\ FetcherFrame

\* ------------------------------------------------------------- the stream
\* The stream client on its own: no fetcher entity is enabled.
Init ==
    /\ InitStream
    /\ InitFetchers
    /\ hosted = {}
    /\ feed = NoFeed

Next ==
    \/ PingAdd
    \/ PingRemove
    \/ PingRemoveReturn
    \/ \E t \in TaskIds : TaskStart(t)
    \/ \E t \in TaskIds : TaskCancelled(t)
    \/ \E t \in TaskIds : ConnectOk(t)
    \/ \E t \in TaskIds, st \in FailStatuses, fr \in Fracs : ConnectNon200(t, st, fr)
    \/ \E t \in TaskIds, fr \in Fracs : StreamException(t, fr)
    \/ \E t \in TaskIds : SleepDone(t)
    \/ \E t \in TaskIds : StreamEnd(t)
    \/ \E t \in TaskIds, raw \in RawLines : ReadLine(t, raw)

Spec == Init /\ [][Next]_vars

\* The event loop runs every task that is ready: a task that was cancelled
\* or created is stepped, a sleep ends when its delay has passed, and a
\* coroutine awaiting a finished task is resumed.  What the server sends,
\* and when, is left open.
Fairness ==
    /\ WF_vars(\E t \in TaskIds : TaskStart(t))
    /\ WF_vars(\E t \in TaskIds : TaskCancelled(t))
    /\ WF_vars(\E t \in TaskIds : SleepDone(t))
    /\ WF_vars(PingRemoveReturn)

FairSpec == Spec /\ Fairness

\* ------------------------------------------------------------ one fetcher
\* One fetcher entity next to a stream client that connects and reads
\* events: the lines of FetchLines arrive, the connection does not fail.
FetchLines == {RawDataA, RawBlank}

InitFetch ==
    /\ InitStream
    /\ InitFetchers
    /\ hosted \in {{f} : f \in Fetchers}
    /\ feed = NoFeed

FetcherNext ==
    \/ \E f \in Fetchers : FAdd(f)
    \/ \E f \in Fetchers : FRemove(f)
    \/ MidnightTick
    \/ \E f \in Fetchers : HandleSseUpdate(f)
    \/ \E f \in Fetchers : HandleMidnightTick(f)
    \/ \E f \in Fetchers : \E r \in inflight[f], how \in FailOutcomes :
           RefreshFailed(f, r, how)
    \/ \E f \in Fetchers : \E r \in inflight[f] : RefreshNonObject(f, r)
    \/ \E f \in Fetchers : \E r \in inflight[f], data \in Payloads :
           RefreshOk(f, r, data)

EventsNext ==
    \/ PingAdd
    \/ \E t \in TaskIds : TaskStart(t)
    \/ \E t \in TaskIds : ConnectOk(t)
    \/ \E t \in TaskIds, raw \in FetchLines : ReadLine(t, raw)

NextFetch == FetcherNext \/ EventsNext

SpecFetch == InitFetch /\ [][NextFetch]_vars

\* The event loop runs every task it has been given: a handler call that
\* waits does start.
FairnessFetch == \A f \in Fetchers : WF_vars(HandleSseUpdate(f) \/ HandleMidnightTick(f))

FairSpecFetch == InitFetch /\ [][NextFetch]_vars /\ FairnessFetch

\* ---------------------------------------------------------- four fetchers
\* The four fetcher entities added next to the stream client; the REST API
\* answers their GETs with a 500 or not at all.
InitFanout ==
    /\ InitStream
    /\ InitFetchers
    /\ hosted = Fetchers
    /\ feed = NoFeed

NextFanout ==
    \/ \E f \in Fetchers : FAdd(f)
    \/ \E f \in Fetchers : HandleSseUpdate(f)
    \/ \E f \in Fetchers : \E r \in inflight[f] : RefreshFailed(f, r, "status_500")
    \/ EventsNext

SpecFanout == InitFanout /\ [][NextFanout]_vars

\* ------------------------------------------------------- all the triggers
\* The four fetchers with the three things that can start a refresh: being
\* added, an event of the stream client, and local midnight.
NextTick ==
    \/ NextFanout
    \/ MidnightTick
    \/ \E f \in Fetchers : HandleMidnightTick(f)

SpecTick == InitFanout /\ [][NextTick]_vars

\* ---------------------------------------------------------- one connection
\* The stream client on one connection that answers 200 and stays open, with
\* the lines it reads and the events it assembles recorded.
InitParser ==
    /\ InitStream
    /\ InitFetchers
    /\ hosted = {}
    /\ feed = EmptyFeed

NextParser ==
    \/ PingAdd
    \/ \E t \in TaskIds : TaskStart(t)
    \/ \E t \in TaskIds : ConnectOk(t)
    \/ \E t \in TaskIds, raw \in RawLines : ReadLine(t, raw)

SpecParser == InitParser /\ [][NextParser]_vars

\* ================================================================= claims

\* C1: for every snapshot fetcher, the response to an earlier-issued GET
\* never overwrites the state written from a later-issued one (the GET whose
\* response is written last never goes back in issue order).
C1_NoStaleOverwrite ==
    [][\A f \in Fetchers : lastApplied'[f] >= lastApplied[f]]_vars

\* C2: every end of a connection while the client runs is followed by a
\* sleep of backoff * jitter, jitter in [0.8, 1.2), and a doubling of the
\* backoff capped at 300, before the next session.get: a task reaches a new
\* connect attempt only from its first step or from such a sleep.
C2_SleepBeforeReconnect ==
    [][\A t \in TaskIds :
         LET a == tasks[t]
             b == tasks'[t]
         IN /\ (b.pc = "connecting" /\ a.pc # "connecting") =>
                   \/ a.pc = "created"
                   \/ /\ a.pc \in SleepPcs
                      /\ b.backoff = Min(2 * a.backoff, BackoffCeiling)
            /\ (b.pc \in SleepPcs /\ a.pc \notin SleepPcs) =>
                   /\ 800 * a.backoff <= b.delay
                   /\ b.delay < 1200 * a.backoff]_vars

\* C3 as stated: at every connect attempt, after N failed attempts counted
\* from the start of the loop or from the last HTTP 200, the backoff is
\* min(5 * 2^N, 300), and it is 5 right after an HTTP 200.
C3_BackoffFromFloor ==
    \A t \in TaskIds :
        /\ tasks[t].pc = "connecting" =>
               tasks[t].backoff = Min(BackoffFloor * 2^tasks[t].nfail, BackoffCeiling)
        /\ tasks[t].pc = "streaming" => tasks[t].backoff = BackoffFloor

\* C3 amended: at every connect attempt the backoff is min(5 * 2^N, 300)
\* with N the failed attempts since the last HTTP 200, and min(10 * 2^N, 300)
\* with N the failed attempts since the start of the loop when there has been
\* no HTTP 200 yet; right after an HTTP 200 it is 5.
C3_BackoffAfterFailures ==
    \A t \in TaskIds :
        /\ tasks[t].pc = "connecting" =>
               tasks[t].backoff =
                   Min((IF tasks[t].seen200 THEN BackoffFloor ELSE InitialBackoff)
                           * 2^tasks[t].nfail,
                       BackoffCeiling)
        /\ tasks[t].pc = "streaming" => tasks[t].backoff = BackoffFloor

C3_Witness ==
    \E t \in TaskIds :
        /\ tasks[t].pc = "connecting"
        /\ tasks[t].seen200
        /\ tasks[t].nfail = 6
        /\ tasks[t].backoff = BackoffCeiling

\* async_will_remove_from_hass of the ApiPingSensor has returned and the
\* entity has not been added again.
Stopped == ~pingActive /\ removePc = "idle" /\ lastRemove # "none"

\* C4: once async_will_remove_from_hass has returned, every _listen_sse task
\* has finished, and no step connects, reads, updates the last-seen value,
\* writes the state or publishes.
C4_NothingAfterStop ==
    /\ [](Stopped => \A t \in TaskIds : tasks[t].pc \in EndPcs)
    /\ [][Stopped /\ Stopped' =>
              UNCHANGED <<tasks, native_value, pingWrites, published>>]_vars

C4_Witness ==
    /\ Stopped
    /\ native_value # NoneValue
    /\ tasks[curTask].pc = "cancelled"

\* C5: a stop invoked while the loop is suspended at an await point always
\* ends the task, as cancelled (the generic handler does not swallow the
\* cancellation), and async_will_remove_from_hass returns normally.
C5_StopTerminates ==
    /\ [](lastRemove # "error")
    /\ (removePc = "awaiting") ~>
           (removePc = "idle" /\ lastRemove = "ok"
               /\ tasks[curTask].pc = "cancelled")

C5_Witness ==
    /\ removePc = "awaiting"
    /\ tasks[curTask].cancel
    /\ tasks[curTask].pc = "sleep_exc"

\* Where the t-th task of the instance is, "none" before it is created.
PcOf(t) == IF t <= Len(tasks) THEN tasks[t].pc ELSE "none"

\* C6: while no stop has been requested the loop neither ends nor raises,
\* and after every failure (401, another status, an exception) the task
\* comes to another connect attempt unless it is stopped.
C6_RetriesForever ==
    /\ [](\A t \in TaskIds :
            (t = curTask /\ running /\ ~tasks[t].cancel) => tasks[t].pc \notin EndPcs)
    /\ \A t \in 1..MaxTasks :
           (PcOf(t) \in SleepPcs) ~> (PcOf(t) = "connecting" \/ PcOf(t) \in EndPcs)

C6_Witness ==
    \E t \in TaskIds :
        /\ running
        /\ tasks[t].pc = "connecting"
        /\ tasks[t].status = 401
        /\ tasks[t].nfail >= 1

\* C7: with activate called only on an inactive instance, at most one
\* connection attempt or open stream to /api/events exists at any time, over
\* all the tasks the instance has started.
C7_OneConnection ==
    Cardinality({t \in TaskIds : tasks[t].pc \in ConnPcs}) <= 1

C7_Witness ==
    /\ Len(tasks) >= 2
    /\ tasks[1].pc \in EndPcs
    /\ tasks[2].pc = "streaming"

\* C8: after a fetcher's async_will_remove_from_hass has returned it holds no
\* subscription, to EVENT_SSE_UPDATE or to the midnight tick, and no
\* notification or tick published from then on calls its handler, after any
\* alternation of activations and deactivations.
C8_NoSubscriptionAfterRemove ==
    /\ [](\A f \in Fetchers :
            ~fActive[f] => sseSubs[f] = 0 /\ tickSubs[f] = 0 /\ unsubs[f] = <<>>)
    /\ [][\A f \in Fetchers :
            (~fActive[f] /\ ~fActive'[f]) =>
                sseCalls'[f] = sseCalls[f] /\ tickCalls'[f] = tickCalls[f]]_vars

C8_Witness ==
    \E f \in Fetchers :
        /\ ~fActive[f]
        /\ issued[f] >= 2
        /\ pubAtRemove[f] >= 0
        /\ published > pubAtRemove[f]

\* C9: when one event is assembled while the four fetchers are active,
\* exactly one notification is published and the handler of each fetcher is
\* called exactly once for it; and every handler call becomes exactly one
\* GET, none skipped and none doubled: a call waits, then starts by issuing
\* one GET of its cause.
C9_OneRefreshEach ==
    [][/\ (pingWrites' = pingWrites + 1 /\ \A f \in Fetchers : fActive[f]) =>
             /\ published' = published + 1
             /\ \A f \in Fetchers :
                   /\ sseCalls'[f] = sseCalls[f] + 1
                   /\ pending'[f] = Append(pending[f], "sse")
       /\ \A f \in Fetchers :
             /\ CountOf(pending'[f], "sse")
                    + Cardinality({r \in inflight'[f] \ inflight[f] : r.cause = "sse"})
                = CountOf(pending[f], "sse") + (sseCalls'[f] - sseCalls[f])
             /\ issued'[f] - issued[f]
                = Cardinality(inflight'[f] \ inflight[f])]_vars

C9_Witness ==
    /\ published = 1
    /\ \A f \in Fetchers :
          /\ fActive[f]
          /\ sseCalls[f] = 1
          /\ issued[f] = 2
          /\ pending[f] = <<>>

\* C10: a refresh whose GET answers a status other than 200, or fails with a
\* transport exception, leaves the state and the attributes of the fetcher
\* as they were and writes nothing.
TransportFailures == {"status_401", "status_500", "exception"}

C10_FailedRefreshKeepsState ==
    [][\A f \in Fetchers :
         (inflight'[f] # inflight[f] /\ inflight'[f] \subseteq inflight[f]
              /\ outcome'[f] \in TransportFailures) =>
             /\ value'[f] = value[f]
             /\ attrs'[f] = attrs[f]
             /\ fWrites'[f] = fWrites[f]]_vars

C10_Witness ==
    \E f \in Fetchers :
        /\ outcome[f] \in TransportFailures
        /\ fWrites[f] = 1
        /\ lastApplied[f] = 1
        /\ issued[f] = 2
        /\ inflight[f] = {}
        /\ attrs[f] # NoAttrs

\* C11: whatever the outcome of the GET (transport failure, 401 or another
\* non-200, a 200 whose body is no JSON, a 200 whose JSON is no object), the
\* refresh of every fetcher returns to its caller without raising.
C11_RefreshNeverRaises ==
    \A f \in Fetchers : outcome[f] # "raised"

\* The line classes of the parser (sensor.py:90-110), on raw lines.
IsBlank(raw) == Decodable(raw) /\ RStripNL(raw) = <<>>
IsComment(raw) == Decodable(raw) /\ StartsWith(RStripNL(raw), Colon)
IsData(raw) ==
    /\ Decodable(raw)
    /\ ~IsBlank(raw)
    /\ ~IsComment(raw)
    /\ StartsWith(RStripNL(raw), DataPrefix)

\* The payloads of the data: lines of a sequence of raw lines, concatenated
\* in order without separator.
RECURSIVE ConcatData(_)
ConcatData(lines) ==
    IF lines = <<>> THEN <<>>
    ELSE (IF IsData(Head(lines)) THEN DataPayload(RStripNL(Head(lines)))
          ELSE <<>>) \o ConcatData(Tail(lines))

\* The lines hold exactly one block of data: lines ended by a blank line:
\* there is a data: line, a blank line follows all of them, and no blank line
\* stands between two of them.
OneBlock(lines) ==
    \E i \in 1..Len(lines) :
        /\ IsBlank(lines[i])
        /\ \E j \in 1..(i - 1) : IsData(lines[j])
        /\ \A j \in 1..Len(lines) : IsData(lines[j]) => j < i
        /\ \A j \in 1..(i - 1) :
               IsBlank(lines[j]) => \A k \in 1..(j - 1) : ~IsData(lines[k])

\* C12 as stated: the lines of one connection that hold exactly one
\* terminated block of data: lines, with any payloads, even all empty, give
\* exactly one event, the concatenation of the payloads.
C12_OneBlockOneEvent ==
    OneBlock(feed.lines) =>
        /\ feed.events = <<ConcatData(feed.lines)>>
        /\ published = 1
        /\ native_value = ConcatData(feed.lines)

\* C12 amended: such lines give exactly one event, the concatenation of the
\* payloads, when that concatenation is not empty, and no event at all when
\* every payload of the block is empty.
C12_OneBlockOneEventUnlessEmpty ==
    OneBlock(feed.lines) =>
        IF ConcatData(feed.lines) # <<>>
        THEN /\ feed.events = <<ConcatData(feed.lines)>>
             /\ published = 1
             /\ native_value = ConcatData(feed.lines)
        ELSE /\ feed.events = <<>>
             /\ published = 0
             /\ native_value = NoneValue

C12_Witness ==
    /\ OneBlock(feed.lines)
    /\ \E i, j \in 1..Len(feed.lines) :
           i < j /\ feed.lines[i] = RawDataA /\ feed.lines[j] = RawDataB
    /\ \E i \in 1..Len(feed.lines) : feed.lines[i] = RawDataEmpty
    /\ feed.events = << <<"a", "b">> >>
    /\ native_value = <<"a", "b">>

\* The line the last step read, and whether this step reads one.
LastLine == feed.lines[Len(feed.lines)]
ReadsLine == Len(feed.lines') = Len(feed.lines) + 1
LineRead == feed.lines'[Len(feed.lines')]

\* The buffer of the connection that is being read.
StreamingBuffers == {tasks[t].buffer : t \in {u \in TaskIds : tasks[u].pc = "streaming"}}

\* C13: no assembled event is the empty string; the buffer is empty right
\* after every blank line; a blank line emits exactly when the buffer is not
\* empty, so of a run of consecutive blank lines only the first can emit.
C13_BlankLines ==
    /\ [](/\ \A i \in 1..Len(feed.events) : feed.events[i] # <<>>
          /\ native_value # <<>>
          /\ (feed.lines # <<>> /\ IsBlank(LastLine)) =>
                 StreamingBuffers = {<<>>})
    /\ [][(ReadsLine /\ IsBlank(LineRead)) =>
              /\ (feed.events' # feed.events) <=> (StreamingBuffers # {<<>>})
              /\ (published' # published) <=> (StreamingBuffers # {<<>>})
              /\ (feed.lines # <<>> /\ IsBlank(LastLine)) =>
                     (feed.events' = feed.events /\ published' = published)]_vars

C13_Witness ==
    /\ feed.lines = <<RawDataEmpty, RawBlank, RawDataA, RawBlank, RawBlank>>
    /\ feed.events = << <<"a">> >>
    /\ published = 1
    /\ StreamingBuffers = {<<>>}

\* The state each fetcher shows for "no reservation".
FreeMarker(f) ==
    IF f = Ocupado THEN FALSE
    ELSE IF f = Hoy THEN "Libre"
    ELSE "Ninguna"

\* C14: after a refresh of any of the four fetchers that received a 200 with
\* has_reservation = false, the state is the fetcher's none/free marker and
\* the attributes carry the payload's user_name (attribute `nombre`), null
\* included.
C14_FreeMarkerAndUserName ==
    \A f \in Fetchers : \A data \in lastData[f] :
        data.has_reservation = JFalse =>
            /\ value[f] = FreeMarker(f)
            /\ "nombre" \in DOMAIN attrs[f]
            /\ attrs[f].nombre = data.user_name

\* C15: each of the four fetchers, while it is added, starts one refresh
\* when it is added, has one refresh called on every event notification,
\* and one on every local-midnight tick.
C15_ThreeTriggers ==
    [][\A f \in Fetchers :
         /\ (~fActive[f] /\ fActive'[f]) => issued'[f] = issued[f] + 1
         /\ (fActive[f] /\ published' = published + 1) =>
                /\ sseCalls'[f] = sseCalls[f] + 1
                /\ pending'[f] = Append(pending[f], "sse")
         /\ (fActive[f] /\ tickCalls' # tickCalls) =>
                /\ tickCalls'[f] = tickCalls[f] + 1
                /\ pending'[f] = Append(pending[f], "tick")]_vars

\* C16: in every state of the _listen_sse loop, whatever connects, non-200
\* answers and exceptions came before, the backoff lies between the floor of
\* 5 and the ceiling of 300.
C16_BackoffBounded ==
    \A t \in TaskIds :
        /\ BackoffFloor <= tasks[t].backoff
        /\ tasks[t].backoff <= BackoffCeiling

C16_Witness ==
    \E t \in TaskIds :
        /\ tasks[t].pc = "sleep_exc"
        /\ ~tasks[t].seen200
        /\ tasks[t].nfail = MaxFails
        /\ tasks[t].backoff = BackoffCeiling

\* A comment line, or another non-empty line that is no data: line.
Ignored(raw) == Decodable(raw) /\ ~IsBlank(raw) /\ ~IsData(raw)
NotIgnored(raw) == ~Ignored(raw)

\* The events the parser assembles from a sequence of raw lines, starting
\* with the given buffer.
RECURSIVE EventsFrom(_, _)
EventsFrom(buffer, lines) ==
    IF lines = <<>> THEN <<>>
    ELSE LET p == FeedLine(buffer, Head(lines)) IN
         (IF p.emit THEN <<p.event>> ELSE <<>>) \o EventsFrom(p.buffer, Tail(lines))

\* C17: reading a comment line or another non-empty line that is no data:
\* line leaves the buffer and the last-seen value as they are and emits no
\* event and no notification; the events of a connection are those of its
\* lines with all such lines taken out.
C17_IgnoredLines ==
    /\ [][(ReadsLine /\ Ignored(LineRead)) =>
              /\ StreamingBuffers' = StreamingBuffers
              /\ native_value' = native_value
              /\ pingWrites' = pingWrites
              /\ published' = published
              /\ feed.events' = feed.events]_vars
    /\ [](feed.events = EventsFrom(<<>>, SelectSeq(feed.lines, NotIgnored)))

C17_Witness ==
    /\ feed.lines = <<RawDataA, RawPing, RawEventField, RawDataB, RawBlank>>
    /\ feed.events = << <<"a", "b">> >>
    /\ native_value = <<"a", "b">>
    /\ published = 1

\* C18: reading a data: line appends to the buffer the rest of the line after
\* the prefix with at most one leading space taken off (further leading
\* spaces stay), and nothing else: no separator.
C18_OneLeadingSpace ==
    [][(ReadsLine /\ IsData(LineRead)) =>
          LET line == RStripNL(LineRead)
              rest == SubSeq(line, DataPrefixLen + 1, Len(line))
              payload == IF rest # <<>> /\ Head(rest) = " "
                         THEN Tail(rest) ELSE rest
          IN  StreamingBuffers' = {b \o payload : b \in StreamingBuffers}]_vars

\* C19: for every completed event the last-seen value is set to the event
\* and the buffer is reset before the notification goes out: in the step
\* that publishes, the last-seen value becomes the buffered event, the
\* buffer becomes empty and the state is written once; whenever a
\* notification has been published the last-seen value is the event that
\* caused the latest one, and as many notifications have been published as
\* events were completed.
C19_StoreThenPublish ==
    /\ [][(published' # published) =>
              /\ published' = published + 1
              /\ pingWrites' = pingWrites + 1
              /\ StreamingBuffers = {native_value'}
              /\ StreamingBuffers' = {<<>>}
              /\ feed.events' = Append(feed.events, native_value')]_vars
    /\ [](/\ published = Len(feed.events)
          /\ pingWrites = published
          /\ published > 0 => native_value = feed.events[Len(feed.events)])

C19_Witness ==
    /\ feed.lines = <<RawDataA, RawBlank, RawDataB, RawBlank>>
    /\ feed.events = << <<"a">>, <<"b">> >>
    /\ published = 2
    /\ native_value = <<"b">>

\* C20: once async_will_remove_from_hass of a fetcher has returned, and
\* until the fetcher is added again, its state and attributes do not change
\* and it writes no state, even if a refresh was in flight at the removal.
C20_NoWriteAfterRemove ==
    [][\A f \in Fetchers :
         (~fActive[f] /\ pubAtRemove[f] >= 0 /\ ~fActive'[f]) =>
             /\ value'[f] = value[f]
             /\ attrs'[f] = attrs[f]
             /\ fWrites'[f] = fWrites[f]]_vars

\* The refreshes a step starts for fetcher f.
Started(f) == inflight'[f] \ inflight[f]

\* C21: no update is lost at activation.  A fetcher connects to the
\* notifier in the same uninterrupted step in which it issues its initial
\* GET, and stays connected while it is added; so an event published before
\* the activation is followed by the initial GET, and every event published
\* while the fetcher is added has a refresh of its own called, which is not
\* withdrawn and in the end issues a GET later than every GET the fetcher
\* had issued before.
C21_NoLostUpdate ==
    /\ [](\A f \in Fetchers : fActive[f] => sseSubs[f] > 0)
    /\ [][\A f \in Fetchers :
            /\ (~fActive[f] /\ fActive'[f]) =>
                   /\ sseSubs'[f] > 0
                   /\ published' = published
                   /\ \E r \in Started(f) : r.cause = "init" /\ r.seq > issued[f]
            /\ (fActive[f] /\ published' # published) =>
                   /\ fActive'[f]
                   /\ pending'[f] = Append(pending[f], "sse")
            /\ (pending[f] # <<>> /\ pending'[f] # pending[f]) =>
                   \/ /\ pending'[f] = Tail(pending[f])
                      /\ \E r \in Started(f) :
                             r.cause = Head(pending[f]) /\ r.seq > issued[f]
                   \/ /\ Len(pending'[f]) = Len(pending[f]) + 1
                      /\ SubSeq(pending'[f], 1, Len(pending[f])) = pending[f]]_vars
    /\ \A f \in Fetchers : \A n \in 1..MaxReq :
           (Committed(f) >= n) ~> (issued[f] >= n)

C21_Witness ==
    \E f \in Fetchers :
        /\ fActive[f]
        /\ published = 2
        /\ sseCalls[f] = 1
        /\ pending[f] = <<>>
        /\ inflight[f] = {[seq |-> 1, cause |-> "init"], [seq |-> 2, cause |-> "sse"]}

====
